---- MODULE Spec2Model ----
(***************************************************************************)
(* Model of hotones_dashboard.py: the script loads three tables, joins     *)
(* them, derives columns and computes the grouped aggregates behind each   *)
(* chart.  The script runs top to bottom; pc is its position.              *)
(*                                                                         *)
(* Cells that pandas may hold as bool, int, string or NaN are tagged       *)
(* records [kind, n, s].  Floating point results (means, percentages) are  *)
(* kept as exact fractions [num, den].                                     *)
(***************************************************************************)
EXTENDS Integers, Sequences, FiniteSets, TLC

VARIABLES
    episodes,        \* episodes.csv as read: a sequence of records
    seasons,         \* seasons.csv
    sauces,          \* sauces.csv
    df,              \* the unified table
    kpi,             \* the three st.metric values
    comp,            \* completion-share table
    heat_tiers,      \* completion rate by heat tier
    season_trend,    \* completion rate (%) by season
    format_trends,   \* per-season heat / completion / count
    views_branch,    \* which branch of the Views if/elif/else ran
    guest_popularity,\* per-guest popularity and outcome
    pc               \* position of the script

vars == <<episodes, seasons, sauces, df, kpi, comp, heat_tiers, season_trend,
          format_trends, views_branch, guest_popularity, pc>>

----------------------------------------------------------------------------
(* Bounds of the model *)

MaxEpisodes == 2
MaxSeasonRecs == 2
MaxSauces == 2

----------------------------------------------------------------------------
(* Cell values *)

BoolV(b) == [kind |-> "bool", n |-> IF b THEN 1 ELSE 0, s |-> ""]
IntV(i) == [kind |-> "int", n |-> i, s |-> ""]
StrV(t) == [kind |-> "str", n |-> 0, s |-> t]
NaN == [kind |-> "nan", n |-> 0, s |-> ""]

isna(v) == v.kind = "nan"

(* An exact fraction standing for a float result; den = 0 is NaN (the mean
   of nothing). *)
Frac(a, b) == [num |-> a, den |-> b]

RECURSIVE SumSeq(_)
SumSeq(q) == IF Len(q) = 0 THEN 0 ELSE Head(q) + SumSeq(Tail(q))

RECURSIVE Concat(_)
Concat(qq) == IF Len(qq) = 0 THEN <<>> ELSE Head(qq) \o Concat(Tail(qq))

Column(d, c) == [i \in 1..Len(d) |-> d[i][c]]

Range(q) == {q[i] : i \in 1..Len(q)}

(* The values of a set of integers in ascending order (groupby sorts its
   keys). *)
RECURSIVE SortedInts(_)
SortedInts(S) ==
    IF S = {} THEN <<>>
    ELSE LET m == CHOOSE x \in S : \A y \in S : x <= y
         IN <<m>> \o SortedInts(S \ {m})

(* Guest names in the order groupby puts them. *)
GuestOrder == <<"A", "B", "C">>

SortedGuests(S) == SelectSeq(GuestOrder, LAMBDA g : g \in S)

----------------------------------------------------------------------------
(* load_data *)

(* Mutation: a lookup of the first matching right row instead of a join. *)
merge_row_first(l, right, cols) ==
    LET m == SelectSeq(right, LAMBDA r : r.season = l.season)
    IN IF Len(m) = 0
       THEN <<l @@ [c \in cols \ {"season"} |-> NaN]>>
       ELSE <<l @@ [c \in cols |-> m[1][c]]>>

(* Mutation: how='inner'. *)
merge_row_inner(l, right, cols) ==
    LET m == SelectSeq(right, LAMBDA r : r.season = l.season)
    IN [i \in 1..Len(m) |-> l @@ [c \in cols |-> m[i][c]]]

(* pd.merge(left, right[cols], on='season', how='left'): every left row, in
   order, once per right row with the same season (in the right table's
   order); a left row with no match is kept once with NaN in the right
   table's columns. *)
merge_row(l, right, cols) ==
    LET m == SelectSeq(right, LAMBDA r : r.season = l.season)
    IN IF Len(m) = 0
       THEN <<l @@ [c \in cols \ {"season"} |-> NaN]>>
       ELSE [i \in 1..Len(m) |-> l @@ [c \in cols |-> m[i][c]]]

merge_left(left, right, cols) ==
    Concat([i \in 1..Len(left) |-> merge_row(left[i], right, cols)])

season_cols == {"season", "episodes", "original_release", "last_release"}
sauce_cols == {"season", "sauce_number", "sauce_name", "scoville"}

(* df.rename(columns={...}): the six renamed columns; any other column keeps
   its name. *)
new_name(c) ==
    CASE c = "guest" -> "Guest"
      [] c = "season" -> "Season"
      [] c = "episode_overall" -> "Episode"
      [] c = "finished" -> "Completed"
      [] c = "sauce_number" -> "Sauce #"
      [] c = "scoville" -> "Scoville (SHU)"
      [] OTHER -> c

rename(row) ==
    [k \in {new_name(c) : c \in DOMAIN row} |->
        row[CHOOSE c \in DOMAIN row : new_name(c) = k]]

(* Mutation: the flag compared with True instead of converted. *)
astype_bool_eq_true(v) == v.kind \in {"bool", "int"} /\ v.n = 1

(* Series.astype(bool): a bool stays, a number is True unless it is zero (NaN
   is not zero), an object cell is bool(cell), True for any non-empty
   string. *)
astype_bool(v) ==
    CASE v.kind = "bool" -> v.n = 1
      [] v.kind = "int" -> v.n # 0
      [] v.kind = "nan" -> TRUE
      [] v.kind = "str" -> v.s # ""

(* float(text) for the strings of the model: digits parse, anything else
   does not. *)
parse_number(t) ==
    CASE t = "450" -> IntV(450)
      [] OTHER -> NaN

(* pd.to_numeric(cell, errors="coerce") *)
to_numeric(v) ==
    CASE v.kind = "int" -> v
      [] v.kind = "nan" -> NaN
      [] v.kind = "str" -> parse_number(v.s)

(* src is a ghost column: the position of the episode record a row was
   built from.  The script has no such column; the properties use it to
   name "the episode record this row was built from". *)
with_src(tbl) == [i \in 1..Len(tbl) |-> tbl[i] @@ [src |-> i]]

load_data_result ==
    LET joined == merge_left(merge_left(with_src(episodes), seasons, season_cols),
                             sauces, sauce_cols)
        renamed == [i \in 1..Len(joined) |-> rename(joined[i])]
    IN [i \in 1..Len(renamed) |->
          [renamed[i] EXCEPT !["Completed"] = astype_bool(@),
                             !["Scoville (SHU)"] = to_numeric(@)]]

LoadData ==
    /\ pc = "load"
    /\ df' = load_data_result
    /\ pc' = "kpi"
    /\ UNCHANGED <<episodes, seasons, sauces, kpi, comp, heat_tiers, season_trend,
                   format_trends, views_branch, guest_popularity>>

----------------------------------------------------------------------------
(* Reductions used by the aggregates *)

(* Mutation: count() instead of nunique(). *)
nunique_count(q) == Len(q)

(* Series.nunique() of a column without NaN. *)
RECURSIVE nunique(_)
nunique(q) ==
    IF Len(q) = 0 THEN 0
    ELSE (IF Head(q) \in Range(Tail(q)) THEN 0 ELSE 1) + nunique(Tail(q))

(* Mutation: sum() instead of mean(). *)
mean_bool_sum(q) == Frac(SumSeq([i \in 1..Len(q) |-> IF q[i] THEN 1 ELSE 0]), 1)

(* Series.mean() of a boolean column: the number of True over the length. *)
mean_bool(q) == Frac(SumSeq([i \in 1..Len(q) |-> IF q[i] THEN 1 ELSE 0]), Len(q))

(* Series.mean() of a numeric column: NaN cells are skipped. *)
mean_skipna(q) ==
    LET v == SelectSeq(q, LAMBDA x : ~isna(x))
    IN Frac(SumSeq([i \in 1..Len(v) |-> v[i].n]), Len(v))

(* fraction * 100 *)
mul100(f) == Frac(f.num * 100, f.den)

(* The rows of one group of df.groupby(c). *)
group_rows(d, c, k) == SelectSeq(d, LAMBDA r : r[c] = k)

----------------------------------------------------------------------------
(* KPIs *)

KPIs ==
    /\ pc = "kpi"
    /\ kpi' = [total_guests |-> nunique(Column(df, "Guest")),
               total_episodes |-> nunique(Column(df, "Episode")),
               completion_rate |-> mul100(mean_bool(Column(df, "Completed")))]
    /\ pc' = "comp"
    /\ UNCHANGED <<episodes, seasons, sauces, df, comp, heat_tiers, season_trend,
                   format_trends, views_branch, guest_popularity>>

----------------------------------------------------------------------------
(* Guest completion *)

status_label(c) == IF c THEN "Finished all 10" ELSE "Did not finish"

(* groupby("Completed")["Guest"].nunique(): one row per value of Completed
   that occurs, False first. *)
comp_counts ==
    LET keys == SelectSeq(<<FALSE, TRUE>>, LAMBDA c : c \in Range(Column(df, "Completed")))
    IN [i \in 1..Len(keys) |->
          [Completed |-> keys[i],
           Guests |-> nunique(Column(group_rows(df, "Completed", keys[i]), "Guest"))]]

comp_result ==
    LET total_guests == SumSeq(Column(comp_counts, "Guests"))
    IN [i \in 1..Len(comp_counts) |->
          comp_counts[i] @@
          [Percent |-> Frac(comp_counts[i].Guests * 100, total_guests),
           Status |-> status_label(comp_counts[i].Completed)]]

Comp ==
    /\ pc = "comp"
    /\ comp' = comp_result
    /\ pc' = "heat_col"
    /\ UNCHANGED <<episodes, seasons, sauces, df, kpi, heat_tiers, season_trend,
                   format_trends, views_branch, guest_popularity>>

----------------------------------------------------------------------------
(* Sauce heat *)

(* Mutation: a missing heat value read as 0. *)
lt_nan_zero(shu, c) == (IF shu.kind = "int" THEN shu.n ELSE 0) < c

(* shu < c on a float cell: False when the cell is NaN. *)
lt(shu, c) == shu.kind = "int" /\ shu.n < c

(* Mutation: <= at the thresholds. *)
categorize_heat_le(shu) ==
    IF lt(shu, 5001) THEN "Mild"
    ELSE IF lt(shu, 50001) THEN "Medium"
    ELSE IF lt(shu, 500001) THEN "Hot"
    ELSE "Extreme"

categorize_heat(shu) ==
    IF lt(shu, 5000) THEN "Mild"
    ELSE IF lt(shu, 50000) THEN "Medium"
    ELSE IF lt(shu, 500000) THEN "Hot"
    ELSE "Extreme"

tier_order == <<"Mild", "Medium", "Hot", "Extreme">>

HeatTierColumn ==
    /\ pc = "heat_col"
    /\ df' = [i \in 1..Len(df) |->
                df[i] @@ [c \in {"Heat Tier"} |-> categorize_heat(df[i]["Scoville (SHU)"])]]
    /\ pc' = "heat_tiers"
    /\ UNCHANGED <<episodes, seasons, sauces, kpi, comp, heat_tiers, season_trend,
                   format_trends, views_branch, guest_popularity>>

(* groupby("Heat Tier")["Completed"].mean(), then sorted in tier_order. *)
heat_tiers_result ==
    LET keys == SelectSeq(tier_order, LAMBDA t : t \in Range(Column(df, "Heat Tier")))
    IN [i \in 1..Len(keys) |->
          [tier |-> keys[i],
           rate |-> mean_bool(Column(group_rows(df, "Heat Tier", keys[i]), "Completed"))]]

HeatTiers ==
    /\ pc = "heat_tiers"
    /\ heat_tiers' = heat_tiers_result
    /\ pc' = "season_trend"
    /\ UNCHANGED <<episodes, seasons, sauces, df, kpi, comp, season_trend,
                   format_trends, views_branch, guest_popularity>>

----------------------------------------------------------------------------
(* Season evolution *)

season_keys == SortedInts(Range(Column(df, "Season")))

season_trend_result ==
    [i \in 1..Len(season_keys) |->
       [Season |-> season_keys[i],
        rate_pct |-> mul100(mean_bool(
            Column(group_rows(df, "Season", season_keys[i]), "Completed")))]]

SeasonTrend ==
    /\ pc = "season_trend"
    /\ season_trend' = season_trend_result
    /\ pc' = "format_trends"
    /\ UNCHANGED <<episodes, seasons, sauces, df, kpi, comp, heat_tiers,
                   format_trends, views_branch, guest_popularity>>

format_trends_result ==
    [i \in 1..Len(season_keys) |->
       LET g == group_rows(df, "Season", season_keys[i])
           rate == mean_bool(Column(g, "Completed"))
       IN [Season |-> season_keys[i],
           avg_scoville |-> mean_skipna(Column(g, "Scoville (SHU)")),
           rate |-> rate,
           total_guests |-> Len(g),
           rate_pct |-> mul100(rate)]]

FormatTrends ==
    /\ pc = "format_trends"
    /\ format_trends' = format_trends_result
    /\ pc' = "views"
    /\ UNCHANGED <<episodes, seasons, sauces, df, kpi, comp, heat_tiers,
                   season_trend, views_branch, guest_popularity>>

----------------------------------------------------------------------------
(* Popularity *)

columns(d) == IF Len(d) = 0 THEN {} ELSE DOMAIN d[1]

(* Mutation: youtube_views tested first. *)
views_source_swapped(cols) ==
    IF "youtube_views" \in cols THEN "youtube_views"
    ELSE IF "views" \in cols THEN "views"
    ELSE "rank"

(* The if / elif / else on df.columns. *)
views_source(cols) ==
    IF "views" \in cols THEN "views"
    ELSE IF "youtube_views" \in cols THEN "youtube_views"
    ELSE "rank"

(* Mutation: method="min". *)
rank_min_desc(col, x) == Cardinality({j \in 1..Len(col) : col[j] > x}) + 1

(* Series.rank(method="dense", ascending=False): 1 for the largest value, the
   next distinct value gets the next integer, ties share a rank. *)
rank_dense_desc(col, x) == Cardinality({v \in Range(col) : v > x}) + 1

views_value(d, i) ==
    LET src == views_source(columns(d))
    IN IF src = "rank"
       THEN IntV(rank_dense_desc(Column(d, "Episode"), d[i]["Episode"]) * 1000)
       ELSE to_numeric(d[i][src])

ViewsColumn ==
    /\ pc = "views"
    /\ views_branch' = views_source(columns(df))
    /\ df' = [i \in 1..Len(df) |-> df[i] @@ [c \in {"Views"} |-> views_value(df, i)]]
    /\ pc' = "guest_popularity"
    /\ UNCHANGED <<episodes, seasons, sauces, kpi, comp, heat_tiers, season_trend,
                   format_trends, guest_popularity>>

(* Mutation: > 0.5. *)
performance_strict(x) == IF 2 * x.num > x.den THEN "Completed" ELSE "Failed"

(* lambda x: "Completed" if x >= 0.5 else "Failed" *)
performance(x) == IF 2 * x.num >= x.den THEN "Completed" ELSE "Failed"

guest_popularity_result ==
    LET keys == SortedGuests(Range(Column(df, "Guest")))
    IN [i \in 1..Len(keys) |->
          LET g == group_rows(df, "Guest", keys[i])
              rate == mean_bool(Column(g, "Completed"))
          IN [Guest |-> keys[i],
              avg_views |-> mean_skipna(Column(g, "Views")),
              rate |-> rate,
              Performance |-> performance(rate)]]

GuestPopularity ==
    /\ pc = "guest_popularity"
    /\ guest_popularity' = guest_popularity_result
    /\ pc' = "done"
    /\ UNCHANGED <<episodes, seasons, sauces, df, kpi, comp, heat_tiers,
                   season_trend, format_trends, views_branch>>

Next ==
    \/ LoadData
    \/ KPIs
    \/ Comp
    \/ HeatTierColumn
    \/ HeatTiers
    \/ SeasonTrend
    \/ FormatTrends
    \/ ViewsColumn
    \/ GuestPopularity

----------------------------------------------------------------------------
(* Inputs.  Each specification draws the three tables from its own bounded
   sets and runs the same script. *)

SeqsOf(S, lo, hi) == UNION {[1..n -> S] : n \in lo..hi}

EpisodeRecs(G, S, E, F, cols, V) ==
    {b @@ x : b \in [guest : G, season : S, episode_overall : E, finished : F],
              x \in [cols -> V]}

SeasonRec(s, n, first, last) ==
    [season |-> s, episodes |-> IntV(n), original_release |-> StrV(first),
     last_release |-> StrV(last)]

SauceRec(s, k, name, shu) ==
    [season |-> s, sauce_number |-> IntV(k), sauce_name |-> StrV(name), scoville |-> shu]

Season1 == SeasonRec(1, 10, "2015-03-12", "2015-08-27")
Season2 == SeasonRec(2, 40, "2016-01-21", "2016-12-08")

Guests == {"A", "B"}
SeasonNos == {1, 2}
FinishedVals == {BoolV(TRUE), BoolV(FALSE), IntV(0), IntV(1), NaN, StrV("False")}
BoundaryShu == {IntV(4999), IntV(5000), IntV(49999), IntV(50000), IntV(499999),
                IntV(500000), StrV("unknown")}
ViewVals == {IntV(7), StrV("unknown")}
EpisodeNos == {1, 2, 4}

FixedSeasons == <<Season1, Season2>>
(* Season 1 has a mild and an extreme sauce; season 2 has none. *)
FixedSauces == <<SauceRec(1, 1, "Sriracha", StrV("450")),
                 SauceRec(1, 10, "The Last Dab", IntV(2200000))>>

Unset == <<>>

Start ==
    /\ df = Unset /\ kpi = Unset /\ comp = Unset /\ heat_tiers = Unset
    /\ season_trend = Unset /\ format_trends = Unset /\ views_branch = "none"
    /\ guest_popularity = Unset /\ pc = "load"

(* Guests, seasons and completion flags vary; the episode index is the
   record's position; season 2 may be missing from the seasons table. *)
Init ==
    /\ \E q \in SeqsOf(EpisodeRecs(Guests, SeasonNos, {0}, FinishedVals, {}, {}),
                       1, MaxEpisodes) :
          episodes = [i \in 1..Len(q) |-> [q[i] EXCEPT !.episode_overall = i]]
    /\ seasons \in {<<Season1>>, FixedSeasons}
    /\ sauces = FixedSauces
    /\ Start

Spec == Init /\ [][Next]_vars

(* The season and sauce tables vary: missing seasons, repeated seasons. *)
InitJoin ==
    /\ episodes \in SeqsOf(EpisodeRecs({"A"}, SeasonNos, {1}, {BoolV(TRUE)}, {}, {}),
                           1, MaxEpisodes)
    /\ seasons \in SeqsOf({Season1, Season2}, 0, MaxSeasonRecs)
    /\ sauces \in SeqsOf({SauceRec(s, 1, "Sriracha", h) :
                             s \in SeasonNos, h \in {IntV(2200), StrV("unknown")}},
                         0, MaxSauces)
    /\ Start

SpecJoin == InitJoin /\ [][Next]_vars

(* The heat values vary over the tier boundaries. *)
InitHeat ==
    /\ episodes \in SeqsOf(EpisodeRecs({"A"}, SeasonNos, {1},
                                       {BoolV(TRUE), BoolV(FALSE)}, {}, {}),
                           1, MaxEpisodes)
    /\ seasons = FixedSeasons
    /\ sauces \in SeqsOf({SauceRec(1, 1, "Sriracha", h) : h \in BoundaryShu},
                         0, MaxSauces)
    /\ Start

SpecHeat == InitHeat /\ [][Next]_vars

(* The view columns exist or not, and the episode index varies. *)
InitViews ==
    /\ \E cols \in SUBSET {"views", "youtube_views"} :
          episodes \in SeqsOf(EpisodeRecs({"A"}, {1, 2}, EpisodeNos, {BoolV(TRUE)},
                                          cols, ViewVals),
                              1, MaxEpisodes)
    /\ seasons = FixedSeasons
    /\ sauces = FixedSauces
    /\ Start

SpecViews == InitViews /\ [][Next]_vars

----------------------------------------------------------------------------
(* Properties *)

Rows == 1..Len(df)
HasTier == pc \in {"heat_tiers", "season_trend", "format_trends", "views",
                   "guest_popularity", "done"}
HasViews == pc \in {"guest_popularity", "done"}
Loaded == pc # "load"

(* The threshold table of the heat tiers. *)
TierOf(n) ==
    CASE n < 5000 -> "Mild"
      [] 5000 <= n /\ n < 50000 -> "Medium"
      [] 50000 <= n /\ n < 500000 -> "Hot"
      [] n >= 500000 -> "Extreme"

BoundaryTiers ==
    (4999 :> "Mild") @@ (5000 :> "Medium") @@ (49999 :> "Medium") @@
    (50000 :> "Hot") @@ (499999 :> "Hot") @@ (500000 :> "Extreme")

(* C1: the Heat Tier of every row with a numeric heat value is the tier the
   threshold table gives that value, and the six boundary values get Mild,
   Medium, Medium, Hot, Hot, Extreme. *)
C1_HeatTierThresholds ==
    HasTier =>
      \A i \in Rows :
         LET h == df[i]["Scoville (SHU)"]
         IN ~isna(h) =>
              /\ df[i]["Heat Tier"] = TierOf(h.n)
              /\ h.n \in DOMAIN BoundaryTiers => df[i]["Heat Tier"] = BoundaryTiers[h.n]

C1_Witness ==
    /\ pc = "done"
    /\ \E i, j \in Rows :
          /\ df[i]["Scoville (SHU)"] = IntV(49999) /\ df[i]["Heat Tier"] = "Medium"
          /\ df[j]["Scoville (SHU)"] = IntV(50000) /\ df[j]["Heat Tier"] = "Hot"

(* Python truthiness: False, 0 and the empty string are falsy, everything
   else (NaN included) is truthy. *)
Truthy(v) == v \notin {BoolV(FALSE), IntV(0), StrV("")}

(* C2: every row's Completed is the truthiness of the finished field of the
   episode record the row was built from, matched or not. *)
C2_CompletedIsTruthiness ==
    Loaded => \A i \in Rows : df[i]["Completed"] = Truthy(episodes[df[i].src].finished)

C2_Witness ==
    /\ pc = "done"
    /\ \E i, j \in Rows :
          /\ episodes[df[i].src].finished = StrV("False") /\ df[i]["Completed"] = TRUE
          /\ episodes[df[j].src].finished = IntV(0) /\ df[j]["Completed"] = FALSE
          /\ isna(df[j]["Scoville (SHU)"]) /\ isna(df[j]["episodes"])

(* The rows of a group and those of them that completed, counted on df. *)
InGroup(c, k) == {i \in Rows : df[i][c] = k}
DoneIn(c, k) == {i \in InGroup(c, k) : df[i]["Completed"]}
IsRateOf(f, c, k, scale) ==
    /\ f.den = Cardinality(InGroup(c, k))
    /\ f.num = scale * Cardinality(DoneIn(c, k))
    /\ f.den > 0 /\ 0 <= f.num /\ f.num <= scale * f.den

(* C3: in every grouping (heat tier, season, guest) the completion rate of a
   group is its completed rows over its rows, so between 0 and 1 (0 and 100
   as a percentage), and every group of the table has its rate. *)
C3_GroupedRateIsMean ==
    /\ \A k \in 1..Len(heat_tiers) :
          IsRateOf(heat_tiers[k].rate, "Heat Tier", heat_tiers[k].tier, 1)
    /\ pc \in {"season_trend", "format_trends", "views", "guest_popularity", "done"} =>
          {heat_tiers[k].tier : k \in 1..Len(heat_tiers)} = {df[i]["Heat Tier"] : i \in Rows}
    /\ \A k \in 1..Len(season_trend) :
          IsRateOf(season_trend[k].rate_pct, "Season", season_trend[k].Season, 100)
    /\ pc \in {"format_trends", "views", "guest_popularity", "done"} =>
          {season_trend[k].Season : k \in 1..Len(season_trend)} = {df[i]["Season"] : i \in Rows}
    /\ \A k \in 1..Len(format_trends) :
          /\ IsRateOf(format_trends[k].rate, "Season", format_trends[k].Season, 1)
          /\ IsRateOf(format_trends[k].rate_pct, "Season", format_trends[k].Season, 100)
    /\ \A k \in 1..Len(guest_popularity) :
          IsRateOf(guest_popularity[k].rate, "Guest", guest_popularity[k].Guest, 1)

C3_Witness ==
    /\ pc = "done"
    /\ \E k \in 1..Len(heat_tiers) :
          0 < heat_tiers[k].rate.num /\ heat_tiers[k].rate.num < heat_tiers[k].rate.den
    /\ \E k \in 1..Len(season_trend) : season_trend[k].rate_pct = Frac(100, 1)
    /\ \E k \in 1..Len(guest_popularity) : guest_popularity[k].rate.num = 0

NoViewColumn == columns(df) \cap {"views", "youtube_views"} = {}

(* C4: with no views / youtube_views column, a larger Episode has a strictly
   smaller Views, equal Episodes have equal Views, and the Views are 1000,
   2000, ... up to 1000 times the number of distinct Episodes, without gaps. *)
C4_FallbackDenseDecreasing ==
    (HasViews /\ NoViewColumn) =>
      /\ \A i, j \in Rows :
            /\ df[i]["Episode"] > df[j]["Episode"] => df[i]["Views"].n < df[j]["Views"].n
            /\ df[i]["Episode"] = df[j]["Episode"] => df[i]["Views"] = df[j]["Views"]
      /\ {df[i]["Views"] : i \in Rows} =
            {IntV(1000 * r) : r \in 1..Cardinality({df[i]["Episode"] : i \in Rows})}

C4_Witness ==
    /\ pc = "done" /\ NoViewColumn
    /\ \E i, j \in Rows :
          /\ i # j /\ df[i]["Episode"] = 4 /\ df[j]["Episode"] = 4
          /\ df[i]["Views"] = IntV(1000)
    /\ \E i \in Rows : df[i]["Episode"] = 1 /\ df[i]["Views"] = IntV(2000)

(* The records of a table whose season is that of episode record e. *)
Matches(tbl, e) == {k \in 1..Len(tbl) : tbl[k].season = episodes[e].season}
AtLeastOne(n) == IF n = 0 THEN 1 ELSE n
RowsOf(e) == {i \in Rows : df[i].src = e}
Expansion(e) ==
    AtLeastOne(Cardinality(Matches(seasons, e))) * AtLeastOne(Cardinality(Matches(sauces, e)))

(* C5, as stated: the unified table has as many rows as there are episode
   records. *)
C5_OneRowPerEpisode == Loaded => Len(df) = Len(episodes)

(* C5, amended: an episode record has one row per pair of a season record
   and a sauce record of its season (a table with no record of that season
   counting once); the table has as many rows as episode records exactly when
   no episode's season occurs twice in the seasons or the sauces table; each
   row carries the metadata of a season record and the heat value of a sauce
   record of its season. *)
C5_RowsPerEpisode ==
    Loaded =>
      /\ \A e \in 1..Len(episodes) : Cardinality(RowsOf(e)) = Expansion(e)
      /\ Len(df) = SumSeq([e \in 1..Len(episodes) |-> Expansion(e)])
      /\ (Len(df) = Len(episodes)) <=>
            \A e \in 1..Len(episodes) :
               Cardinality(Matches(seasons, e)) <= 1 /\ Cardinality(Matches(sauces, e)) <= 1
      /\ \A i \in Rows :
            /\ Matches(seasons, df[i].src) # {} =>
                  \E k \in Matches(seasons, df[i].src) :
                     /\ df[i]["episodes"] = seasons[k].episodes
                     /\ df[i]["original_release"] = seasons[k].original_release
                     /\ df[i]["last_release"] = seasons[k].last_release
            /\ Matches(sauces, df[i].src) # {} =>
                  \E k \in Matches(sauces, df[i].src) :
                     /\ df[i]["sauce_name"] = sauces[k].sauce_name
                     /\ df[i]["Scoville (SHU)"] = to_numeric(sauces[k].scoville)

C5_Witness ==
    /\ pc = "done"
    /\ Len(df) > Len(episodes)
    /\ \E e \in 1..Len(episodes) :
          Cardinality(Matches(sauces, e)) = 2 /\ Cardinality(RowsOf(e)) = 2

(* C6: every episode record appears in the unified table with its own
   fields; a row whose season is not in the seasons table has null season
   metadata, a row whose season is not in the sauces table has a null sauce
   name and heat value. *)
C6_LeftJoinsKeepEpisodes ==
    Loaded =>
      /\ \A e \in 1..Len(episodes) : RowsOf(e) # {}
      /\ \A i \in Rows :
            LET e == df[i].src
            IN /\ e \in 1..Len(episodes)
               /\ df[i]["Guest"] = episodes[e].guest
               /\ df[i]["Season"] = episodes[e].season
               /\ df[i]["Episode"] = episodes[e].episode_overall
               /\ df[i]["Completed"] = Truthy(episodes[e].finished)
               /\ Matches(seasons, e) = {} =>
                     /\ isna(df[i]["episodes"])
                     /\ isna(df[i]["original_release"])
                     /\ isna(df[i]["last_release"])
               /\ Matches(sauces, e) = {} =>
                     /\ isna(df[i]["sauce_name"])
                     /\ isna(df[i]["Scoville (SHU)"])

C6_Witness ==
    /\ pc = "done"
    /\ \E i \in Rows :
          /\ Matches(seasons, df[i].src) = {} /\ isna(df[i]["episodes"])
          /\ Matches(sauces, df[i].src) # {} /\ ~isna(df[i]["sauce_name"])
    /\ \E i \in Rows :
          /\ Matches(sauces, df[i].src) = {} /\ isna(df[i]["Scoville (SHU)"])

(* C7: Views is the views column when there is one, else the youtube_views
   column when there is one, and the rank proxy exactly when there is
   neither. *)
C7_ViewsSelection ==
    HasViews =>
      /\ "views" \in columns(df) =>
            /\ views_branch = "views"
            /\ \A i \in Rows : df[i]["Views"] = to_numeric(df[i]["views"])
      /\ ("views" \notin columns(df) /\ "youtube_views" \in columns(df)) =>
            /\ views_branch = "youtube_views"
            /\ \A i \in Rows : df[i]["Views"] = to_numeric(df[i]["youtube_views"])
      /\ views_branch = "rank" <=> NoViewColumn
      /\ NoViewColumn =>
            \A i \in Rows :
               df[i]["Views"] =
                  IntV(1000 * (1 + Cardinality({df[j]["Episode"] : j \in Rows}
                                               \cap {x \in EpisodeNos : x > df[i]["Episode"]})))

C7_Witness ==
    /\ pc = "done"
    /\ {"views", "youtube_views"} \subseteq columns(df)
    /\ views_branch = "views"
    /\ \E i \in Rows :
          /\ df[i]["views"] = StrV("unknown") /\ df[i]["youtube_views"] = IntV(7)
          /\ isna(df[i]["Views"])

(* C8: every guest of the table has exactly one entry in the popularity
   table, labelled Completed when at least half of the guest's rows are
   completed and Failed otherwise. *)
C8_OutcomeLabel ==
    pc = "done" =>
      /\ \A i \in Rows :
            Cardinality({k \in 1..Len(guest_popularity) :
                            guest_popularity[k].Guest = df[i]["Guest"]}) = 1
      /\ \A k \in 1..Len(guest_popularity) :
            LET g == guest_popularity[k].Guest
            IN /\ InGroup("Guest", g) # {}
               /\ guest_popularity[k].Performance =
                     IF 2 * Cardinality(DoneIn("Guest", g)) >= Cardinality(InGroup("Guest", g))
                     THEN "Completed" ELSE "Failed"

C8_Witness ==
    /\ pc = "done"
    /\ \E k \in 1..Len(guest_popularity) :
          LET g == guest_popularity[k].Guest
          IN /\ 2 * Cardinality(DoneIn("Guest", g)) = Cardinality(InGroup("Guest", g))
             /\ guest_popularity[k].rate.den > 0
             /\ guest_popularity[k].Performance = "Completed"

Tiers == {"Mild", "Medium", "Hot", "Extreme"}
Missing(i) == isna(df[i]["Scoville (SHU)"])

(* C9: a row whose heat value is missing (no sauce record of its season, or
   a non-numeric heat field) has the tier Extreme and is counted in the
   Extreme group of the heat-tier completion rate; every row has one of the
   four tiers. *)
C9_MissingHeatIsExtreme ==
    /\ Loaded =>
          \A i \in Rows : Matches(sauces, df[i].src) = {} => Missing(i)
    /\ HasTier =>
          \A i \in Rows :
             /\ df[i]["Heat Tier"] \in Tiers
             /\ Missing(i) => df[i]["Heat Tier"] = "Extreme"
    /\ pc \in {"season_trend", "format_trends", "views", "guest_popularity", "done"} =>
          \A k \in 1..Len(heat_tiers) :
             heat_tiers[k].tier = "Extreme" =>
                heat_tiers[k].rate.den =
                   Cardinality({i \in Rows : Missing(i) \/ df[i]["Scoville (SHU)"].n >= 500000})
    /\ pc \in {"season_trend", "format_trends", "views", "guest_popularity", "done"} =>
          ((\E i \in Rows : Missing(i)) =>
              \E k \in 1..Len(heat_tiers) : heat_tiers[k].tier = "Extreme")

C9_Witness ==
    /\ pc = "done"
    /\ \E i, j \in Rows :
          /\ Matches(sauces, df[i].src) = {} /\ Missing(i) /\ df[i]["Heat Tier"] = "Extreme"
          /\ Matches(sauces, df[j].src) # {} /\ Missing(j) /\ df[j]["Heat Tier"] = "Extreme"
    /\ \E k \in 1..Len(heat_tiers) :
          heat_tiers[k].tier = "Extreme" /\ heat_tiers[k].rate.den >= 2

GuestsWith(c) == {df[i]["Guest"] : i \in {j \in Rows : df[j]["Completed"] = c}}
CompTotal == SumSeq(Column(comp, "Guests"))

(* C10: each status that occurs has the number of distinct guests with a row
   of that status; its Percent is that number over the sum of the numbers,
   times 100; the Percents sum to 100; the sum is at least the Total Guests
   KPI. *)
C10_CompletionShare ==
    pc \notin {"load", "kpi", "comp"} =>
      /\ {comp[k].Completed : k \in 1..Len(comp)} = {df[i]["Completed"] : i \in Rows}
      /\ \A k, m \in 1..Len(comp) : comp[k].Completed = comp[m].Completed => k = m
      /\ \A k \in 1..Len(comp) :
            /\ comp[k].Guests = Cardinality(GuestsWith(comp[k].Completed))
            /\ comp[k].Percent = Frac(comp[k].Guests * 100, CompTotal)
      /\ SumSeq([k \in 1..Len(comp) |-> comp[k].Percent.num]) = 100 * CompTotal
      /\ CompTotal >= kpi.total_guests
      /\ kpi.total_guests = Cardinality({df[i]["Guest"] : i \in Rows})

C10_Witness ==
    /\ pc = "done"
    /\ Len(comp) = 2
    /\ GuestsWith(TRUE) \cap GuestsWith(FALSE) # {}
    /\ CompTotal > kpi.total_guests

====
